---- MODULE Spec2Model ----
(***************************************************************************)
(* A model of simctl_mcp_server.py: the tool registry (handle_list_tools), *)
(* the dispatcher (handle_call_tool), the fifteen handlers and the         *)
(* executor (_run_simctl_command), with the child process and the          *)
(* temporary payload files of simctl_push_notification.                    *)
(*                                                                         *)
(* A coroutine runs without interruption between two awaits, so one        *)
(* action is the code between two awaits of one invocation.                *)
(***************************************************************************)
EXTENDS Integers, Sequences, FiniteSets, TLC

VARIABLES
    pc,        \* per invocation: "idle", "spawn", "communicate", "done"
    req,       \* per invocation: the (name, arguments) of the call
    cmd,       \* per invocation: argv given to create_subprocess_exec
    child,     \* per invocation: the child process
    launches,  \* per invocation: calls of create_subprocess_exec so far
    returned,  \* per invocation: what handle_call_tool handed back
    ran,       \* per invocation: what _run_simctl_command returned or raised
    tmp,       \* per invocation: payload_file of _push_notification
    fs         \* the temporary directory: path -> file, or NoFile

vars == <<pc, req, cmd, child, launches, returned, ran, tmp, fs>>

----------------------------------------------------------------------------
(* Bounds of the model *)

\* longest captured stdout / stderr, in characters
MaxText == 2
\* invocations in flight at once in SpecPush
NumInv == 2
\* names NamedTemporaryFile can draw from
NumNames == 2

Inv == 1 .. NumInv
Paths == 1 .. NumNames

----------------------------------------------------------------------------
(* Python values.  A value carries its type, as in Python, so that         *)
(* truthiness and str() are computed per type.                             *)

PyStr(s) == [t |-> "str", v |-> s]
PyNum(n) == [t |-> "num", v |-> n]
PyBool(b) == [t |-> "bool", v |-> b]
PyList(l) == [t |-> "list", v |-> l]
PyDict(d) == [t |-> "dict", v |-> d]

\* bool(v): what `if args.get(k):` tests
Truthy(v) ==
    CASE v.t = "str" -> v.v # ""
      [] v.t = "num" -> v.v # 0
      [] v.t = "bool" -> v.v
      [] v.t = "list" -> v.v # <<>>
      [] v.t = "dict" -> v.v # "{}"

\* str(v) as an f-string renders it (strings and integers only)
str(v) ==
    CASE v.t = "str" -> v.v
      [] v.t = "num" -> ToString(v.v)

\* k in args
Has(args, k) == k \in DOMAIN args

\* bool(args.get(k)): a missing key gives None, which is falsy
Get(args, k) == Has(args, k) /\ Truthy(args[k])

\* sep.join(l) for a list of strings
RECURSIVE join(_, _)
join(sep, l) ==
    IF l = <<>> THEN ""
    ELSE IF Len(l) = 1 THEN l[1]
    ELSE l[1] \o sep \o join(sep, Tail(l))

----------------------------------------------------------------------------
(* Captured output: a sequence of bytes.  Bad stands for a byte that is    *)
(* not valid UTF-8; the others are one-character ASCII strings.            *)

Bad == "\\xff"
Alphabet == {"0", "-", " ", Bad}
Whitespace == {" "}

RECURSIVE SeqsUpTo(_, _)
SeqsUpTo(S, n) ==
    IF n = 0 THEN {<<>>}
    ELSE LET shorter == SeqsUpTo(S, n - 1)
         IN  shorter \cup {Append(s, c) : s \in {x \in shorter : Len(x) = n - 1}, c \in S}

Bytes == SeqsUpTo(Alphabet, MaxText)

\* bytes.decode(): strict UTF-8
Decodable(b) == \A k \in 1 .. Len(b) : b[k] # Bad

\* str.strip()
RECURSIVE lstrip(_)
lstrip(s) ==
    IF s # <<>> /\ Head(s) \in Whitespace THEN lstrip(Tail(s)) ELSE s

RECURSIVE rstrip(_)
rstrip(s) ==
    IF s # <<>> /\ s[Len(s)] \in Whitespace
    THEN rstrip(SubSeq(s, 1, Len(s) - 1))
    ELSE s

strip(s) == rstrip(lstrip(s))

\* the characters of a decoded text as one Python string
chars(s) == join("", s)

\* json.loads(text): over Alphabet the only JSON documents are 0 and -0,
\* both the integer 0; anything else is a JSONDecodeError
json_loads(s) ==
    IF strip(s) \in {<<"0">>, <<"-", "0">>}
    THEN [ok |-> TRUE, value |-> 0]
    ELSE [ok |-> FALSE]

\* json.dumps(value, indent=2) of an integer
json_dumps(n) == ToString(n)

----------------------------------------------------------------------------
(* handle_list_tools: the advertised tools.  Of each inputSchema the model *)
(* keeps the property names, the required list, the enumerations and the   *)
(* defaults.                                                               *)

Tool(name, properties, required, enum, default) ==
    [name |-> name, properties |-> properties, required |-> required,
     enum |-> enum, default |-> default]

handle_list_tools ==
    << Tool("simctl_list_devices", {"format", "filter"}, {},
            [format |-> {"json", "text"}],
            [format |-> PyStr("json")]),
       Tool("simctl_boot_device", {"device", "arch"}, {"device"},
            [arch |-> {"arm64", "x86_64"}], <<>>),
       Tool("simctl_shutdown_device", {"device"}, {"device"}, <<>>, <<>>),
       Tool("simctl_create_device", {"name", "device_type", "runtime"},
            {"name", "device_type"}, <<>>, <<>>),
       Tool("simctl_delete_device", {"devices"}, {"devices"}, <<>>, <<>>),
       Tool("simctl_install_app", {"device", "app_path"},
            {"device", "app_path"}, <<>>, <<>>),
       Tool("simctl_launch_app",
            {"device", "bundle_id", "wait_for_debugger", "console_mode", "args"},
            {"device", "bundle_id"},
            [console_mode |-> {"none", "console", "console-pty"}],
            [wait_for_debugger |-> PyBool(FALSE), console_mode |-> PyStr("none")]),
       Tool("simctl_terminate_app", {"device", "bundle_id"},
            {"device", "bundle_id"}, <<>>, <<>>),
       Tool("simctl_screenshot", {"device", "output_path", "format", "display"},
            {"device", "output_path"},
            [format |-> {"png", "tiff", "bmp", "gif", "jpeg"},
             display |-> {"internal", "external"}],
            [format |-> PyStr("png"), display |-> PyStr("internal")]),
       Tool("simctl_record_video", {"device", "output_path", "codec", "display"},
            {"device", "output_path"},
            [codec |-> {"h264", "hevc"}, display |-> {"internal", "external"}],
            [codec |-> PyStr("hevc"), display |-> PyStr("internal")]),
       Tool("simctl_push_notification", {"device", "bundle_id", "payload"},
            {"device", "payload"}, <<>>, <<>>),
       Tool("simctl_privacy_control", {"device", "action", "service", "bundle_id"},
            {"device", "action", "service"},
            [action |-> {"grant", "revoke", "reset"},
             service |-> {"all", "calendar", "contacts-limited", "contacts",
                          "location", "location-always", "photos-add", "photos",
                          "media-library", "microphone", "motion", "reminders",
                          "siri"}],
            <<>>),
       Tool("simctl_set_location",
            {"device", "action", "latitude", "longitude", "scenario"},
            {"device", "action"},
            [action |-> {"set", "clear", "list", "run"}], <<>>),
       Tool("simctl_status_bar_override",
            {"device", "action", "time", "data_network", "wifi_bars",
             "cellular_bars", "battery_level", "battery_state"},
            {"device", "action"},
            [action |-> {"list", "clear", "override"},
             data_network |-> {"hide", "wifi", "3g", "4g", "lte", "lte-a", "lte+",
                               "5g", "5g+", "5g-uwb", "5g-uc"},
             battery_state |-> {"charging", "charged", "discharging"}],
            <<>>),
       Tool("simctl_ui_appearance", {"device", "appearance"}, {"device"},
            [appearance |-> {"light", "dark"}], <<>>) >>

\* a variant that advertises one more tool
ToolNames_extra ==
    {handle_list_tools[k].name : k \in DOMAIN handle_list_tools}
        \cup {"simctl_erase_device"}

\* the names handle_list_tools advertises
ToolNames == {handle_list_tools[k].name : k \in DOMAIN handle_list_tools}

\* the advertised schema of a tool
Schema(name) ==
    LET k == CHOOSE j \in DOMAIN handle_list_tools : handle_list_tools[j].name = name
    IN  handle_list_tools[k]

----------------------------------------------------------------------------
(* What a handler does up to its await of _run_simctl_command: it raises,  *)
(* or it hands cmd_args to the executor.  `file` is what the step did to   *)
(* the temporary directory (only _push_notification touches it).           *)

NoPath == 0
NoEffect == [path |-> NoPath, data |-> "", unlinked |-> FALSE]

Raise(type, msg) ==
    [kind |-> "raise", type |-> type, msg |-> msg, cmd_args |-> <<>>, file |-> NoEffect]

Run(cmd_args) ==
    [kind |-> "run", type |-> "", msg |-> "", cmd_args |-> cmd_args, file |-> NoEffect]

\* args[k] of a missing key; str(KeyError(k)) is the quoted key
KeyError(k) == Raise("KeyError", "'" \o k \o "'")

\* args.get(k, d)
GetOr(args, k, d) == IF Has(args, k) THEN args[k] ELSE d

\* a one-token list when the condition holds, else the empty list
When(cond, tokens) == IF cond THEN tokens ELSE <<>>

_list_devices(args) ==
    Run(<<"list">>
        \o When(Has(args, "format") /\ args["format"] = PyStr("json"), <<"-j">>)
        \o <<"devices">>
        \o (IF Get(args, "filter") THEN <<args["filter"].v>> ELSE <<>>))

\* a variant that reads the device with args.get("device")
_boot_device_get(args) ==
    Run(<<"boot", str(GetOr(args, "device", PyStr("None")))>>
        \o (IF Get(args, "arch") THEN <<"--arch=" \o str(args["arch"])>> ELSE <<>>))

\* a variant that passes the architecture as a separate token
_boot_device_split(args) ==
    IF ~Has(args, "device") THEN KeyError("device")
    ELSE Run(<<"boot", args["device"].v>>
             \o (IF Get(args, "arch") THEN <<"--arch", str(args["arch"])>> ELSE <<>>))

_boot_device(args) ==
    IF ~Has(args, "device") THEN KeyError("device")
    ELSE Run(<<"boot", args["device"].v>>
             \o (IF Get(args, "arch") THEN <<"--arch=" \o str(args["arch"])>> ELSE <<>>))

_shutdown_device(args) ==
    IF ~Has(args, "device") THEN KeyError("device")
    ELSE Run(<<"shutdown", args["device"].v>>)

_create_device(args) ==
    IF ~Has(args, "name") THEN KeyError("name")
    ELSE IF ~Has(args, "device_type") THEN KeyError("device_type")
    ELSE Run(<<"create", args["name"].v, args["device_type"].v>>
             \o (IF Get(args, "runtime") THEN <<args["runtime"].v>> ELSE <<>>))

_delete_device(args) ==
    IF ~Has(args, "devices") THEN KeyError("devices")
    ELSE Run(<<"delete">> \o args["devices"].v)

_install_app(args) ==
    IF ~Has(args, "device") THEN KeyError("device")
    ELSE IF ~Has(args, "app_path") THEN KeyError("app_path")
    ELSE Run(<<"install", args["device"].v, args["app_path"].v>>)

\* a variant that renders the boolean as the value of its flag
_launch_app_textual(args) ==
    LET console_mode == GetOr(args, "console_mode", PyStr("none"))
        flags == When(Has(args, "wait_for_debugger"),
                      <<"--wait-for-debugger",
                        IF args["wait_for_debugger"].v THEN "true" ELSE "false">>)
                 \o (IF console_mode = PyStr("console") THEN <<"--console">>
                     ELSE IF console_mode = PyStr("console-pty") THEN <<"--console-pty">>
                     ELSE <<>>)
    IN  IF ~Has(args, "device") THEN KeyError("device")
        ELSE IF ~Has(args, "bundle_id") THEN KeyError("bundle_id")
        ELSE Run(<<"launch">> \o flags
                 \o <<args["device"].v, args["bundle_id"].v>>
                 \o (IF Get(args, "args") THEN args["args"].v ELSE <<>>))

_launch_app(args) ==
    LET console_mode == GetOr(args, "console_mode", PyStr("none"))
        flags == When(Get(args, "wait_for_debugger"), <<"--wait-for-debugger">>)
                 \o (IF console_mode = PyStr("console") THEN <<"--console">>
                     ELSE IF console_mode = PyStr("console-pty") THEN <<"--console-pty">>
                     ELSE <<>>)
    IN  IF ~Has(args, "device") THEN KeyError("device")
        ELSE IF ~Has(args, "bundle_id") THEN KeyError("bundle_id")
        ELSE Run(<<"launch">> \o flags
                 \o <<args["device"].v, args["bundle_id"].v>>
                 \o (IF Get(args, "args") THEN args["args"].v ELSE <<>>))

_terminate_app(args) ==
    IF ~Has(args, "device") THEN KeyError("device")
    ELSE IF ~Has(args, "bundle_id") THEN KeyError("bundle_id")
    ELSE Run(<<"terminate", args["device"].v, args["bundle_id"].v>>)

\* a variant that always names the image type on the command line
_screenshot_type(args) ==
    IF ~Has(args, "device") THEN KeyError("device")
    ELSE IF ~Has(args, "output_path") THEN KeyError("output_path")
    ELSE Run(<<"io", args["device"].v, "screenshot">>
             \o <<"--type=" \o str(GetOr(args, "format", PyStr("png")))>>
             \o (IF GetOr(args, "display", PyStr("internal")) # PyStr("internal")
                 THEN <<"--display=" \o str(args["display"])>> ELSE <<>>)
             \o <<args["output_path"].v>>)

_screenshot(args) ==
    IF ~Has(args, "device") THEN KeyError("device")
    ELSE IF ~Has(args, "output_path") THEN KeyError("output_path")
    ELSE Run(<<"io", args["device"].v, "screenshot">>
             \o (IF GetOr(args, "format", PyStr("png")) # PyStr("png")
                 THEN <<"--type=" \o str(args["format"])>> ELSE <<>>)
             \o (IF GetOr(args, "display", PyStr("internal")) # PyStr("internal")
                 THEN <<"--display=" \o str(args["display"])>> ELSE <<>>)
             \o <<args["output_path"].v>>)

_record_video(args) ==
    IF ~Has(args, "device") THEN KeyError("device")
    ELSE IF ~Has(args, "output_path") THEN KeyError("output_path")
    ELSE Run(<<"io", args["device"].v, "recordVideo">>
             \o (IF GetOr(args, "codec", PyStr("hevc")) # PyStr("hevc")
                 THEN <<"--codec=" \o str(args["codec"])>> ELSE <<>>)
             \o (IF GetOr(args, "display", PyStr("internal")) # PyStr("internal")
                 THEN <<"--display=" \o str(args["display"])>> ELSE <<>>)
             \o <<args["output_path"].v>>)

_privacy_control(args) ==
    IF ~Has(args, "device") THEN KeyError("device")
    ELSE IF ~Has(args, "action") THEN KeyError("action")
    ELSE IF ~Has(args, "service") THEN KeyError("service")
    ELSE Run(<<"privacy", args["device"].v, args["action"].v, args["service"].v>>
             \o (IF Get(args, "bundle_id") THEN <<args["bundle_id"].v>> ELSE <<>>))

\* a variant that rejects "set" only when both coordinates are missing and
\* reads them with args.get
_set_location_and(args) ==
    IF ~Has(args, "device") THEN KeyError("device")
    ELSE IF ~Has(args, "action") THEN KeyError("action")
    ELSE LET cmd_args == <<"location", args["device"].v, args["action"].v>>
         IN  IF args["action"] = PyStr("set")
             THEN IF ~Get(args, "latitude") /\ ~Get(args, "longitude")
                  THEN Raise("ValueError",
                             "Latitude and longitude required for 'set' action")
                  ELSE Run(cmd_args
                           \o <<str(GetOr(args, "latitude", PyStr("None"))) \o ","
                                \o str(GetOr(args, "longitude", PyStr("None")))>>)
             ELSE IF args["action"] = PyStr("run")
             THEN IF ~Get(args, "scenario")
                  THEN Raise("ValueError", "Scenario required for 'run' action")
                  ELSE Run(cmd_args \o <<args["scenario"].v>>)
             ELSE Run(cmd_args)

_set_location(args) ==
    IF ~Has(args, "device") THEN KeyError("device")
    ELSE IF ~Has(args, "action") THEN KeyError("action")
    ELSE LET cmd_args == <<"location", args["device"].v, args["action"].v>>
         IN  IF args["action"] = PyStr("set")
             THEN IF ~Get(args, "latitude") \/ ~Get(args, "longitude")
                  THEN Raise("ValueError",
                             "Latitude and longitude required for 'set' action")
                  ELSE Run(cmd_args \o <<str(args["latitude"]) \o ","
                                          \o str(args["longitude"])>>)
             ELSE IF args["action"] = PyStr("run")
             THEN IF ~Get(args, "scenario")
                  THEN Raise("ValueError", "Scenario required for 'run' action")
                  ELSE Run(cmd_args \o <<args["scenario"].v>>)
             ELSE Run(cmd_args)

\* `args.get(k) is not None`: no None is ever supplied, so: k is present
IsNotNone(args, k) == Has(args, k)

\* a variant that tests the integer parameters by truthiness
_status_bar_override_truthy(args) ==
    IF ~Has(args, "device") THEN KeyError("device")
    ELSE IF ~Has(args, "action") THEN KeyError("action")
    ELSE Run(<<"status_bar", args["device"].v, args["action"].v>>
             \o (IF args["action"] = PyStr("override")
                 THEN (IF Get(args, "time")
                       THEN <<"--time", args["time"].v>> ELSE <<>>)
                   \o (IF Get(args, "data_network")
                       THEN <<"--dataNetwork", args["data_network"].v>> ELSE <<>>)
                   \o (IF Get(args, "wifi_bars")
                       THEN <<"--wifiBars", str(args["wifi_bars"])>> ELSE <<>>)
                   \o (IF Get(args, "cellular_bars")
                       THEN <<"--cellularBars", str(args["cellular_bars"])>> ELSE <<>>)
                   \o (IF Get(args, "battery_level")
                       THEN <<"--batteryLevel", str(args["battery_level"])>> ELSE <<>>)
                   \o (IF Get(args, "battery_state")
                       THEN <<"--batteryState", args["battery_state"].v>> ELSE <<>>)
                 ELSE <<>>))

_status_bar_override(args) ==
    IF ~Has(args, "device") THEN KeyError("device")
    ELSE IF ~Has(args, "action") THEN KeyError("action")
    ELSE Run(<<"status_bar", args["device"].v, args["action"].v>>
             \o (IF args["action"] = PyStr("override")
                 THEN (IF Get(args, "time")
                       THEN <<"--time", args["time"].v>> ELSE <<>>)
                   \o (IF Get(args, "data_network")
                       THEN <<"--dataNetwork", args["data_network"].v>> ELSE <<>>)
                   \o (IF IsNotNone(args, "wifi_bars")
                       THEN <<"--wifiBars", str(args["wifi_bars"])>> ELSE <<>>)
                   \o (IF IsNotNone(args, "cellular_bars")
                       THEN <<"--cellularBars", str(args["cellular_bars"])>> ELSE <<>>)
                   \o (IF IsNotNone(args, "battery_level")
                       THEN <<"--batteryLevel", str(args["battery_level"])>> ELSE <<>>)
                   \o (IF Get(args, "battery_state")
                       THEN <<"--batteryState", args["battery_state"].v>> ELSE <<>>)
                 ELSE <<>>))

_ui_appearance(args) ==
    IF ~Has(args, "device") THEN KeyError("device")
    ELSE Run(<<"ui", args["device"].v, "appearance">>
             \o (IF Get(args, "appearance") THEN <<args["appearance"].v>> ELSE <<>>))

----------------------------------------------------------------------------
(* _push_notification and its temporary file.  A file of the temporary     *)
(* directory records who wrote it and what; NoFile is a free name.         *)

NoFile == [owner |-> 0, data |-> ""]
File(i, data) == [owner |-> i, data |-> data]

\* the name of the file at a path of the temporary directory
PathName(path) == "/tmp/tmp" \o ToString(path) \o ".json"

\* a variant that always writes the payload to the same path
NamedTemporaryFile_fixed(dir) == {CHOOSE path \in Paths : TRUE}

\* tempfile.NamedTemporaryFile(delete=False): the names it may create, each
\* opened with O_EXCL, so none that exists; with none left it raises
\* FileExistsError
NamedTemporaryFile(dir) == {path \in Paths : dir[path] = NoFile}

\* json.dump(payload, f): a payload is kept as its JSON text
json_dump(payload) == payload.v

\* lines 626-637; path is the name NamedTemporaryFile gave, NoPath if none.
\* A KeyError of args["payload"] leaves the `with` before the `try`, so
\* the file stays; a KeyError of args["device"] runs the `finally`.
_push_notification(args, path) ==
    IF path = NoPath
    THEN Raise("FileExistsError", "[Errno 17] No usable temporary file name found")
    ELSE IF ~Has(args, "payload")
    THEN [KeyError("payload") EXCEPT
            !.file = [path |-> path, data |-> "", unlinked |-> FALSE]]
    ELSE LET written == [path |-> path, data |-> json_dump(args["payload"]),
                         unlinked |-> FALSE]
         IN  IF ~Has(args, "device")
             THEN [KeyError("device") EXCEPT !.file = [written EXCEPT !.unlinked = TRUE]]
             ELSE [Run(<<"push", args["device"].v>>
                       \o (IF Get(args, "bundle_id") THEN <<args["bundle_id"].v>> ELSE <<>>)
                       \o <<PathName(path)>>)
                   EXCEPT !.file = written]

----------------------------------------------------------------------------
(* What a handler does once _run_simctl_command has returned `result`      *)
(* (the decoded, stripped standard output).                                *)

_list_devices_return(args, result) ==
    IF Has(args, "format") /\ args["format"] = PyStr("json")
    THEN IF json_loads(result).ok
         THEN json_dumps(json_loads(result).value)
         ELSE chars(result)
    ELSE chars(result)

_boot_device_return(args, result) ==
    "Successfully booted device: " \o str(args["device"])

_shutdown_device_return(args, result) ==
    "Successfully shutdown device: " \o str(args["device"])

_create_device_return(args, result) ==
    "Created device '" \o str(args["name"]) \o "': " \o chars(result)

_delete_device_return(args, result) ==
    "Successfully deleted devices: " \o join(", ", args["devices"].v)

_install_app_return(args, result) ==
    "Successfully installed app from " \o str(args["app_path"])
        \o " to " \o str(args["device"])

_launch_app_return(args, result) ==
    "Launched " \o str(args["bundle_id"]) \o " on " \o str(args["device"])
        \o ": " \o chars(result)

_terminate_app_return(args, result) ==
    "Terminated " \o str(args["bundle_id"]) \o " on " \o str(args["device"])

_screenshot_return(args, result) ==
    "Screenshot saved to " \o str(args["output_path"])

_record_video_return(args, result) ==
    "Started video recording to " \o str(args["output_path"])
        \o ". Send SIGINT (Ctrl+C) to stop."

_push_notification_return(args, result) ==
    "Push notification sent to "
        \o str(GetOr(args, "bundle_id", PyStr("app specified in payload")))

_privacy_control_return(args, result) ==
    LET action_desc == IF args["action"] # PyStr("reset")
                       THEN str(args["action"]) \o "ed" ELSE "reset"
    IN  "Privacy permission " \o action_desc \o " for "
            \o str(args["service"]) \o " service"

_set_location_return(args, result) ==
    IF result # <<>> THEN chars(result)
    ELSE "Location " \o str(args["action"]) \o " completed"

_status_bar_override_return(args, result) ==
    IF result # <<>> THEN chars(result)
    ELSE "Status bar " \o str(args["action"]) \o " completed"

_ui_appearance_return(args, result) == chars(result)

----------------------------------------------------------------------------
(* _run_simctl_command *)

Return(value) == [kind |-> "return", value |-> value]

\* cmd = ["xcrun", "simctl"] + args
_run_simctl_command(args) == <<"xcrun", "simctl">> \o args

\* bytes.decode() of undecodable bytes
UnicodeDecodeError(b) ==
    LET k == CHOOSE j \in 1 .. Len(b) : b[j] = Bad /\ \A h \in 1 .. j - 1 : b[h] # Bad
    IN  Raise("UnicodeDecodeError",
              "'utf-8' codec can't decode byte 0xff in position "
                  \o ToString(k - 1) \o ": invalid start byte")

\* a variant that does not look at the exit status
_run_simctl_command_communicate_unchecked(returncode, stdout, stderr) ==
    IF Decodable(stdout)
    THEN Return(strip(stdout))
    ELSE UnicodeDecodeError(stdout)

\* after `await process.communicate()`: lines 491-495
_run_simctl_command_communicate(returncode, stdout, stderr) ==
    IF returncode # 0
    THEN IF stderr # <<>>
         THEN IF Decodable(stderr)
              THEN Raise("RuntimeError",
                         "simctl command failed: " \o chars(strip(stderr)))
              ELSE UnicodeDecodeError(stderr)
         ELSE Raise("RuntimeError", "simctl command failed: Command failed")
    ELSE IF Decodable(stdout)
         THEN Return(strip(stdout))
         ELSE UnicodeDecodeError(stdout)

\* except FileNotFoundError: lines 497-498
_run_simctl_command_except ==
    Raise("RuntimeError", "xcrun simctl not found. Make sure Xcode is installed.")

----------------------------------------------------------------------------
(* handle_call_tool *)

\* the if/elif chain up to the handler's await: lines 440-471
handle_call_tool(name, arguments, path) ==
    IF name = "simctl_list_devices" THEN _list_devices(arguments)
    ELSE IF name = "simctl_boot_device" THEN _boot_device(arguments)
    ELSE IF name = "simctl_shutdown_device" THEN _shutdown_device(arguments)
    ELSE IF name = "simctl_create_device" THEN _create_device(arguments)
    ELSE IF name = "simctl_delete_device" THEN _delete_device(arguments)
    ELSE IF name = "simctl_install_app" THEN _install_app(arguments)
    ELSE IF name = "simctl_launch_app" THEN _launch_app(arguments)
    ELSE IF name = "simctl_terminate_app" THEN _terminate_app(arguments)
    ELSE IF name = "simctl_screenshot" THEN _screenshot(arguments)
    ELSE IF name = "simctl_record_video" THEN _record_video(arguments)
    ELSE IF name = "simctl_push_notification" THEN _push_notification(arguments, path)
    ELSE IF name = "simctl_privacy_control" THEN _privacy_control(arguments)
    ELSE IF name = "simctl_set_location" THEN _set_location(arguments)
    ELSE IF name = "simctl_status_bar_override" THEN _status_bar_override(arguments)
    ELSE IF name = "simctl_ui_appearance" THEN _ui_appearance(arguments)
    ELSE Raise("ValueError", "Unknown tool: " \o name)

\* `result = await self._x(arguments)` once the executor has returned
handle_call_tool_result(name, arguments, result) ==
    CASE name = "simctl_list_devices" -> _list_devices_return(arguments, result)
      [] name = "simctl_boot_device" -> _boot_device_return(arguments, result)
      [] name = "simctl_shutdown_device" -> _shutdown_device_return(arguments, result)
      [] name = "simctl_create_device" -> _create_device_return(arguments, result)
      [] name = "simctl_delete_device" -> _delete_device_return(arguments, result)
      [] name = "simctl_install_app" -> _install_app_return(arguments, result)
      [] name = "simctl_launch_app" -> _launch_app_return(arguments, result)
      [] name = "simctl_terminate_app" -> _terminate_app_return(arguments, result)
      [] name = "simctl_screenshot" -> _screenshot_return(arguments, result)
      [] name = "simctl_record_video" -> _record_video_return(arguments, result)
      [] name = "simctl_push_notification" -> _push_notification_return(arguments, result)
      [] name = "simctl_privacy_control" -> _privacy_control_return(arguments, result)
      [] name = "simctl_set_location" -> _set_location_return(arguments, result)
      [] name = "simctl_status_bar_override" -> _status_bar_override_return(arguments, result)
      [] name = "simctl_ui_appearance" -> _ui_appearance_return(arguments, result)

\* the classes `except Exception` catches, among those the code can raise
ExceptionSubclasses ==
    {"KeyError", "ValueError", "RuntimeError", "UnicodeDecodeError",
     "FileExistsError", "FileNotFoundError"}

\* a text is kept as the pieces an f-string joins: "Error: " is a piece
TextContent(text) == [type |-> "text", text |-> text]

\* line 473
handle_call_tool_return(result) ==
    [kind |-> "response", content |-> <<TextContent(<<result>>)>>, type |-> ""]

\* a variant that catches only the errors the code raises by name
handle_call_tool_except_narrow(e) ==
    IF e.type \in {"ValueError", "RuntimeError"}
    THEN [kind |-> "response", content |-> <<TextContent(<<"Error: ", e.msg>>)>>,
          type |-> ""]
    ELSE [kind |-> "fault", content |-> <<>>, type |-> e.type]

\* lines 475-476; an exception `except Exception` does not catch leaves
\* handle_call_tool
handle_call_tool_except(e) ==
    IF e.type \in ExceptionSubclasses
    THEN [kind |-> "response", content |-> <<TextContent(<<"Error: ", e.msg>>)>>,
          type |-> ""]
    ELSE [kind |-> "fault", content |-> <<>>, type |-> e.type]

\* finally: os.unlink(payload_file), line 643; unlinking a file that is not
\* there raises FileNotFoundError in place of what the try block produced
_push_notification_finally(outcome, dir, path) ==
    IF dir[path] = NoFile
    THEN Raise("FileNotFoundError",
               "[Errno 2] No such file or directory: '" \o PathName(path) \o "'")
    ELSE outcome

\* os.unlink(path)
os_unlink(dir, path) == [dir EXCEPT ![path] = NoFile]

----------------------------------------------------------------------------
(* The calls and the child-process results the model draws from.  Every    *)
(* value has the JSON type its schema declares; a string may be empty or   *)
(* outside its enumeration, and any parameter may be omitted.              *)

Dev == {PyStr("booted")}
Bundle == {PyStr(""), PyStr("com.a")}

Domain ==
    [simctl_list_devices |->
        [format |-> {PyStr("json"), PyStr("text"), PyStr("xml")},
         filter |-> {PyStr(""), PyStr("iPhone")}],
     simctl_boot_device |->
        [device |-> {PyStr("booted"), PyStr("iPhone-15"), PyStr("")},
         arch |-> {PyStr(""), PyStr("arm64"), PyStr("riscv")}],
     simctl_shutdown_device |-> [device |-> Dev],
     simctl_create_device |->
        [name |-> {PyStr("Test")}, device_type |-> {PyStr("iPhone-15")},
         runtime |-> {PyStr(""), PyStr("iOS-17")}],
     simctl_delete_device |->
        [devices |-> {PyList(<<>>), PyList(<<"A">>), PyList(<<"A", "B">>)}],
     simctl_install_app |-> [device |-> Dev, app_path |-> {PyStr("/a.app")}],
     simctl_launch_app |->
        [device |-> Dev, bundle_id |-> {PyStr("com.a")},
         wait_for_debugger |-> {PyBool(TRUE), PyBool(FALSE)},
         console_mode |-> {PyStr("none"), PyStr("console"), PyStr("console-pty"),
                           PyStr("tty")},
         args |-> {PyList(<<>>), PyList(<<"-x", "-y">>)}],
     simctl_terminate_app |-> [device |-> Dev, bundle_id |-> {PyStr("com.a")}],
     simctl_screenshot |->
        [device |-> Dev, output_path |-> {PyStr("/s.png")},
         format |-> {PyStr("png"), PyStr("jpeg"), PyStr("svg")},
         display |-> {PyStr("internal"), PyStr("external"), PyStr("hdmi")}],
     simctl_record_video |->
        [device |-> Dev, output_path |-> {PyStr("/v.mp4")},
         codec |-> {PyStr("hevc"), PyStr("h264"), PyStr("vp9")},
         display |-> {PyStr("internal"), PyStr("external"), PyStr("hdmi")}],
     simctl_push_notification |->
        [device |-> Dev, bundle_id |-> Bundle,
         payload |-> {PyDict("{\"aps\": 1}"), PyDict("{\"aps\": 2}")}],
     simctl_privacy_control |->
        [device |-> Dev,
         action |-> {PyStr("grant"), PyStr("revoke"), PyStr("reset"), PyStr("deny")},
         service |-> {PyStr("photos"), PyStr("bluetooth")},
         bundle_id |-> Bundle],
     simctl_set_location |->
        [device |-> Dev,
         action |-> {PyStr("set"), PyStr("clear"), PyStr("list"), PyStr("run"),
                     PyStr("start")},
         latitude |-> {PyNum(0), PyNum(37)},
         longitude |-> {PyNum(0), PyNum(-122)},
         scenario |-> {PyStr("City Run")}],
     simctl_status_bar_override |->
        [device |-> Dev,
         action |-> {PyStr("list"), PyStr("clear"), PyStr("override"), PyStr("reset")},
         time |-> {PyStr(""), PyStr("9:41")},
         data_network |-> {PyStr("wifi"), PyStr("6g")},
         wifi_bars |-> {PyNum(0), PyNum(3)},
         cellular_bars |-> {PyNum(0)},
         battery_level |-> {PyNum(0)},
         battery_state |-> {PyStr("charging"), PyStr("full")}],
     simctl_ui_appearance |->
        [device |-> Dev, appearance |-> {PyStr(""), PyStr("light"), PyStr("sepia")}],
     simctl_erase_device |-> [device |-> Dev],
     simctl_boot |-> [device |-> Dev]]

\* every mapping that gives some of the parameters of p one of its values
RECURSIVE ArgSets(_, _)
ArgSets(p, keys) ==
    IF keys = {} THEN {<<>>}
    ELSE LET k == CHOOSE x \in keys : TRUE
             rest == ArgSets(p, keys \ {k})
         IN  rest \cup {a @@ (k :> v) : a \in rest, v \in p[k]}

Requests ==
    UNION { {[name |-> n, arguments |-> a] : a \in ArgSets(Domain[n], DOMAIN Domain[n])}
            : n \in DOMAIN Domain }

PushRequests ==
    {r \in Requests : r.name = "simctl_push_notification"
                      /\ ~Has(r.arguments, "bundle_id")}

ExitCodes == {0, 1}

\* what a child can exit with
Outcomes ==
    {[returncode |-> rc, stdout |-> out, stderr |-> <<>>] : rc \in ExitCodes, out \in Bytes}
    \cup {[returncode |-> rc, stdout |-> <<>>, stderr |-> err] : rc \in ExitCodes, err \in Bytes}

PushOutcomes ==
    {[returncode |-> 0, stdout |-> <<>>, stderr |-> <<>>],
     [returncode |-> 1, stdout |-> <<>>, stderr |-> <<"0">>]}

----------------------------------------------------------------------------
(* The state machine *)

NoReq == [name |-> "", arguments |-> <<>>]
NoChild == [state |-> "not_started", returncode |-> -1, stdout |-> <<>>, stderr |-> <<>>]
NoRun == [kind |-> "none"]

Init ==
    /\ pc = [i \in Inv |-> "idle"]
    /\ req = [i \in Inv |-> NoReq]
    /\ cmd = [i \in Inv |-> <<>>]
    /\ child = [i \in Inv |-> NoChild]
    /\ launches = [i \in Inv |-> 0]
    /\ returned = [i \in Inv |-> <<>>]
    /\ ran = [i \in Inv |-> NoRun]
    /\ tmp = [i \in Inv |-> NoPath]
    /\ fs = [p \in Paths |-> NoFile]

\* what a step of invocation i did to the temporary directory
ApplyFile(dir, i, file) ==
    IF file.path = NoPath THEN dir
    ELSE IF file.unlinked THEN os_unlink(dir, file.path)
    ELSE [dir EXCEPT ![file.path] = File(i, file.data)]

\* the name NamedTemporaryFile gives a call of _push_notification
TempNames(r) ==
    IF r.name = "simctl_push_notification" /\ NamedTemporaryFile(fs) # {}
    THEN NamedTemporaryFile(fs)
    ELSE {NoPath}

\* handle_call_tool(r.name, r.arguments), for a call r of `calls`, up to its
\* first await: the handler raises, and the call is answered, or it reaches
\* create_subprocess_exec
Call(i, calls) ==
    /\ pc[i] = "idle"
    /\ \E r \in calls : \E path \in TempNames(r) :
         LET plan == handle_call_tool(r.name, r.arguments, path)
         IN  /\ req' = [req EXCEPT ![i] = r]
             /\ fs' = ApplyFile(fs, i, plan.file)
             /\ IF plan.kind = "run"
                THEN /\ cmd' = [cmd EXCEPT ![i] = _run_simctl_command(plan.cmd_args)]
                     /\ launches' = [launches EXCEPT ![i] = @ + 1]
                     /\ tmp' = [tmp EXCEPT ![i] = plan.file.path]
                     /\ pc' = [pc EXCEPT ![i] = "spawn"]
                     /\ UNCHANGED returned
                ELSE /\ returned' = [returned EXCEPT
                                       ![i] = Append(@, handle_call_tool_except(plan))]
                     /\ pc' = [pc EXCEPT ![i] = "done"]
                     /\ UNCHANGED <<cmd, launches, tmp>>
    /\ UNCHANGED <<child, ran>>

\* the rest of handle_call_tool once the executor has produced `outcome`
\* (a result or an exception): the handler's return value, the finally of
\* _push_notification, and the response
Finish(i, outcome) ==
    LET handled == IF outcome.kind = "return"
                   THEN Return(handle_call_tool_result(req[i].name, req[i].arguments,
                                                       outcome.value))
                   ELSE outcome
        final == IF tmp[i] # NoPath
                 THEN _push_notification_finally(handled, fs, tmp[i])
                 ELSE handled
    IN  /\ ran' = [ran EXCEPT ![i] = outcome]
        /\ fs' = IF tmp[i] # NoPath THEN os_unlink(fs, tmp[i]) ELSE fs
        /\ returned' = [returned EXCEPT
                          ![i] = Append(@, IF final.kind = "return"
                                           THEN handle_call_tool_return(final.value)
                                           ELSE handle_call_tool_except(final))]
        /\ pc' = [pc EXCEPT ![i] = "done"]

\* create_subprocess_exec starts the child
SpawnOk(i) ==
    /\ pc[i] = "spawn"
    /\ child' = [child EXCEPT ![i].state = "running"]
    /\ pc' = [pc EXCEPT ![i] = "communicate"]
    /\ UNCHANGED <<req, cmd, launches, returned, ran, tmp, fs>>

\* a variant that tries create_subprocess_exec again when xcrun is not found
SpawnNotFound_retry(i) ==
    /\ pc[i] = "spawn"
    /\ launches' = [launches EXCEPT ![i] = @ + 1]
    /\ UNCHANGED <<pc, req, cmd, child, returned, ran, tmp, fs>>

\* create_subprocess_exec raises FileNotFoundError: xcrun is not installed
SpawnNotFound(i) ==
    /\ pc[i] = "spawn"
    /\ Finish(i, _run_simctl_command_except)
    /\ UNCHANGED <<req, cmd, child, launches, tmp>>

\* the child exits, with an outcome of `outcomes`; the invocation still
\* waits in process.communicate()
ChildExit(i, outcomes) ==
    /\ pc[i] = "communicate"
    /\ child[i].state = "running"
    /\ \E o \in outcomes :
         child' = [child EXCEPT ![i] = [state |-> "exited", returncode |-> o.returncode,
                                        stdout |-> o.stdout, stderr |-> o.stderr]]
    /\ UNCHANGED <<pc, req, cmd, launches, returned, ran, tmp, fs>>

\* process.communicate() returns
Resume(i) ==
    /\ pc[i] = "communicate"
    /\ child[i].state = "exited"
    /\ Finish(i, _run_simctl_command_communicate(child[i].returncode, child[i].stdout,
                                                 child[i].stderr))
    /\ UNCHANGED <<req, cmd, child, launches, tmp>>

\* one invocation (the first), of any tool with any arguments
Next ==
    \E i \in {1} :
        \/ Call(i, Requests)
        \/ SpawnOk(i)
        \/ SpawnNotFound(i)
        \/ ChildExit(i, Outcomes)
        \/ Resume(i)

Spec == Init /\ [][Next]_vars

\* concurrent invocations of simctl_push_notification
NextPush ==
    \E i \in Inv :
        \/ Call(i, PushRequests)
        \/ SpawnOk(i)
        \/ SpawnNotFound(i)
        \/ ChildExit(i, PushOutcomes)
        \/ Resume(i)

SpecPush == Init /\ [][NextPush]_vars

----------------------------------------------------------------------------
(* Vocabulary of the properties *)

\* the one item handed back for invocation i
Response(i) == returned[i][1]

\* a normal response of a single text item that begins with "Error: "
IsErrorResponse(x) ==
    /\ x.kind = "response"
    /\ Len(x.content) = 1
    /\ x.content[1].type = "text"
    /\ Head(x.content[1].text) = "Error: "

\* the response "Error: " + msg
ErrorResponse(msg) ==
    [kind |-> "response", content |-> <<TextContent(<<"Error: ", msg>>)>>, type |-> ""]

\* invocation i was called with an advertised tool and without one of the
\* parameters its schema requires
OmitsRequired(i) ==
    /\ req[i].name \in ToolNames
    /\ \E k \in Schema(req[i].name).required : ~Has(req[i].arguments, k)

\* create_subprocess_exec was called and did not find the executable
NotFound(i) == pc[i] = "done" /\ launches[i] > 0 /\ child[i].state = "not_started"

\* the child of invocation i exited with a non-zero status
ExitedNonZero(i) == child[i].state = "exited" /\ child[i].returncode # 0

\* the invocation failed at some step
Failed(i) ==
    \/ req[i].name \notin ToolNames
    \/ OmitsRequired(i)
    \/ NotFound(i)
    \/ ExitedNonZero(i)

\* C1: every call of handle_call_tool ends in a normal response and never
\* in an exception raised to the transport; when the invocation failed
\* (unknown name, missing argument, executable not found, non-zero exit)
\* the response is a single text item that begins with "Error: ".
C1_FailuresBecomeErrorResponses ==
    \A i \in Inv :
        /\ \A k \in 1 .. Len(returned[i]) : returned[i][k].kind = "response"
        /\ pc[i] = "done" =>
             /\ Len(returned[i]) = 1
             /\ Failed(i) => IsErrorResponse(Response(i))

C1_Witness ==
    \E i \in Inv :
        /\ pc[i] = "done"
        /\ ExitedNonZero(i)
        /\ IsErrorResponse(Response(i))

\* C2: an invocation that omits a parameter its schema requires ends in an
\* error response, and create_subprocess_exec is never reached.
C2_MissingRequiredNeverLaunches ==
    \A i \in Inv :
        (pc[i] # "idle" /\ OmitsRequired(i)) =>
            /\ pc[i] = "done"
            /\ launches[i] = 0
            /\ cmd[i] = <<>>
            /\ child[i].state = "not_started"
            /\ Len(returned[i]) = 1
            /\ IsErrorResponse(Response(i))

C2_Witness ==
    \E i \in Inv :
        /\ req[i].name = "simctl_launch_app"
        /\ Has(req[i].arguments, "device")
        /\ ~Has(req[i].arguments, "bundle_id")
        /\ pc[i] = "done"
        /\ Response(i) = ErrorResponse("'bundle_id'")

\* invocation i supplies, for a parameter with an enumeration, a value
\* outside it
OutsideEnum(i) ==
    /\ req[i].name \in ToolNames
    /\ \E k \in DOMAIN Schema(req[i].name).enum :
         /\ Has(req[i].arguments, k)
         /\ req[i].arguments[k].v \notin Schema(req[i].name).enum[k]

\* C3: a value outside a parameter's declared enumeration yields an error
\* response, and no command line is built from it.
C3_OutsideEnumRejected ==
    \A i \in Inv :
        (pc[i] # "idle" /\ OutsideEnum(i)) =>
            /\ pc[i] = "done"
            /\ launches[i] = 0
            /\ cmd[i] = <<>>
            /\ IsErrorResponse(Response(i))

\* C4: when a push-notification invocation has returned, no file it created
\* is left in the temporary directory.
C4_NoPayloadFileOutlivesInvocation ==
    \A i \in Inv :
        pc[i] = "done" => \A p \in Paths : fs[p].owner # i

\* invocation i is between creating its payload file and its finally
Live(i) == pc[i] \in {"spawn", "communicate"} /\ tmp[i] # NoPath

\* C5: concurrent push-notification invocations use distinct payload files,
\* and from before the child is launched until it has exited the file named
\* on its command line exists and holds the invocation's own payload.
C5_PayloadFilesAreDisjoint ==
    \A i \in Inv :
        Live(i) =>
            /\ \A j \in Inv \ {i} : Live(j) => tmp[j] # tmp[i]
            /\ cmd[i][Len(cmd[i])] = PathName(tmp[i])
            /\ fs[tmp[i]] = File(i, req[i].arguments["payload"].v)

C5_Witness ==
    \E i, j \in Inv :
        /\ i # j
        /\ Live(i) /\ child[i].state = "running"
        /\ Live(j) /\ child[j].state = "running"
        /\ fs[tmp[i]].data # fs[tmp[j]].data

\* the response that _record_video gives on success
IsStarted(i, x) ==
    /\ req[i].name = "simctl_record_video"
    /\ x.kind = "response"
    /\ x.content = <<TextContent(<<"Started video recording to "
                                    \o req[i].arguments["output_path"].v
                                    \o ". Send SIGINT (Ctrl+C) to stop.">>)>>

\* C6: the "Started video recording" response is produced while the child
\* process is still running, without waiting for it to exit.
C6_RecordingAnswersWhileChildRuns ==
    [][\A i \in Inv :
         (returned[i] = <<>> /\ returned'[i] # <<>> /\ IsStarted(i, returned'[i][1]))
             => child[i].state = "running"]_vars

\* _run_simctl_command has finished for invocation i
Ran(i) == ran[i].kind # "none"

\* r is s without its leading and trailing whitespace
IsTrimOf(r, s) ==
    /\ r = <<>> \/ (r[1] \notin Whitespace /\ r[Len(r)] \notin Whitespace)
    /\ \E a \in 0 .. Len(s) :
         /\ a + Len(r) <= Len(s)
         /\ r = SubSeq(s, a + 1, a + Len(r))
         /\ \A k \in 1 .. a : s[k] \in Whitespace
         /\ \A k \in a + Len(r) + 1 .. Len(s) : s[k] \in Whitespace

\* the executable could not be located: the tool-not-found error
C7_NotFoundCase(i) ==
    child[i].state = "not_started" =>
        /\ ran[i].kind = "raise"
        /\ ran[i].type = "RuntimeError"
        /\ ran[i].msg = "xcrun simctl not found. Make sure Xcode is installed."

\* a zero exit status: standard output, trimmed
C7_ZeroCase(i) ==
    (child[i].state = "exited" /\ child[i].returncode = 0
     /\ Decodable(child[i].stdout)) =>
        /\ ran[i].kind = "return"
        /\ IsTrimOf(ran[i].value, child[i].stdout)

C8_OneChildOneResponse ==
    [][\A i \in Inv :
         /\ launches'[i] \in {launches[i], launches[i] + 1}
         /\ launches'[i] <= 1
         /\ Len(returned'[i]) <= 1
         /\ (pc'[i] = "done") <=> (Len(returned'[i]) = 1)
         /\ child'[i].state # child[i].state =>
              <<child[i].state, child'[i].state>>
                  \in {<<"not_started", "running">>, <<"running", "exited">>}
         /\ (Ran(i) /\ ran[i].kind = "raise") => launches'[i] = launches[i]
         /\ returned[i] # <<>> =>
              /\ launches'[i] = launches[i]
              /\ child'[i] = child[i]
              /\ returned'[i] = returned[i]]_vars

C8_Witness ==
    \E i \in Inv :
        /\ pc[i] = "done"
        /\ launches[i] = 1
        /\ ExitedNonZero(i)
        /\ Len(returned[i]) = 1

\* C9: the advertised names are the fifteen that handle_call_tool routes:
\* a call of an advertised name is never answered "Unknown tool", and a call
\* of any other name is answered "Unknown tool" without a child process.
C9_AdvertisedIffDispatched ==
    /\ Cardinality(ToolNames) = Len(handle_list_tools)
    /\ Len(handle_list_tools) = 15
    /\ \A i \in Inv :
         pc[i] # "idle" =>
            /\ req[i].name \in ToolNames =>
                 (pc[i] = "done" =>
                    Response(i) # ErrorResponse("Unknown tool: " \o req[i].name))
            /\ req[i].name \notin ToolNames =>
                 /\ pc[i] = "done"
                 /\ launches[i] = 0
                 /\ Response(i) = ErrorResponse("Unknown tool: " \o req[i].name)

C9_Witness ==
    \E i \in Inv :
        /\ req[i].name = "simctl_erase_device"
        /\ pc[i] = "done"
        /\ Response(i) = ErrorResponse("Unknown tool: simctl_erase_device")

\* simctl_set_location with action "set" and not both coordinates supplied
SetWithoutBoth(i) ==
    /\ req[i].name = "simctl_set_location"
    /\ Has(req[i].arguments, "action")
    /\ req[i].arguments["action"] = PyStr("set")
    /\ ~Has(req[i].arguments, "latitude") \/ ~Has(req[i].arguments, "longitude")

\* C10: simctl_set_location with action "set" and latitude and longitude not
\* both supplied fails without a child process; with the device given, the
\* error is the one that asks for latitude and longitude.
C10_SetNeedsBothCoordinates ==
    \A i \in Inv :
        SetWithoutBoth(i) =>
            /\ pc[i] = "done"
            /\ launches[i] = 0
            /\ IsErrorResponse(Response(i))
            /\ Has(req[i].arguments, "device") =>
                 Response(i) = ErrorResponse(
                     "Latitude and longitude required for 'set' action")

C10_Witness ==
    \E i \in Inv :
        /\ SetWithoutBoth(i)
        /\ Has(req[i].arguments, "device")
        /\ Has(req[i].arguments, "latitude")
        /\ req[i].arguments["latitude"] # PyNum(0)
        /\ pc[i] = "done"

----------------------------------------------------------------------------
(* Command construction *)

\* the arguments with parameter k supplied as v
Supplying(args, k, v) == (k :> v) @@ args

\* C11: an invocation that omits an optional parameter whose schema declares
\* a default builds the same command line, and gives the same result, as
\* the invocation that supplies the declared default (simctl_list_devices
\* without format behaves as with format "json").
C11_DefaultsApplied ==
    \A i \in Inv :
        (pc[i] # "idle" /\ req[i].name \in ToolNames) =>
            \A k \in DOMAIN Schema(req[i].name).default :
                ~Has(req[i].arguments, k) =>
                    LET explicit == Supplying(req[i].arguments, k,
                                              Schema(req[i].name).default[k])
                        plan == handle_call_tool(req[i].name, explicit, NoPath)
                    IN  /\ cmd[i] = IF plan.kind = "run"
                                    THEN _run_simctl_command(plan.cmd_args)
                                    ELSE <<>>
                        /\ (pc[i] = "done" /\ ran[i].kind = "return") =>
                             Response(i) = handle_call_tool_return(
                                 handle_call_tool_result(req[i].name, explicit,
                                                         ran[i].value))

\* the optional parameters that map to a flag token, per operation
FlagParams ==
    [simctl_screenshot |-> {"format", "display"},
     simctl_record_video |-> {"codec", "display"},
     simctl_launch_app |-> {"console_mode"}]

\* the flag token documented for value v of parameter k
FlagToken(k, v) ==
    CASE k = "format" -> "--type=" \o v
      [] k = "codec" -> "--codec=" \o v
      [] k = "display" -> "--display=" \o v
      [] k = "console_mode" -> "--" \o v

\* every token that is a flag of parameter k of tool `name`
FlagTokens(name, k) == {FlagToken(k, v.v) : v \in Domain[name][k]}

\* where the tokens of set T stand in the sequence s
Positions(s, T) == {n \in DOMAIN s : s[n] \in T}

\* the index of the first trailing positional argument: the output path of
\* screenshot and record-video, the device of launch
TrailingPositional(i) ==
    IF req[i].name = "simctl_launch_app"
    THEN CHOOSE n \in DOMAIN cmd[i] :
             /\ n + 1 \in DOMAIN cmd[i]
             /\ cmd[i][n] = req[i].arguments["device"].v
             /\ cmd[i][n + 1] = req[i].arguments["bundle_id"].v
    ELSE Len(cmd[i])

\* C12: for screenshot, record-video and launch, an optional enumerated
\* parameter that is omitted or given its default value puts no flag token
\* on the command line; given a non-default enumerated value it puts exactly
\* one, the documented one, before the trailing positional arguments.
C12_OptionalFlags ==
    \A i \in Inv :
        (cmd[i] # <<>> /\ req[i].name \in DOMAIN FlagParams) =>
            \A k \in FlagParams[req[i].name] :
                LET args == req[i].arguments
                    schema == Schema(req[i].name)
                    at == Positions(cmd[i], FlagTokens(req[i].name, k))
                IN  /\ (~Has(args, k) \/ args[k] = schema.default[k]) => at = {}
                    /\ (Has(args, k) /\ args[k].v \in schema.enum[k]
                                     /\ args[k] # schema.default[k]) =>
                         \E n \in DOMAIN cmd[i] :
                             /\ at = {n}
                             /\ cmd[i][n] = FlagToken(k, args[k].v)
                             /\ n < TrailingPositional(i)

C12_Witness ==
    \E i \in Inv :
        /\ req[i].name = "simctl_screenshot"
        /\ cmd[i] # <<>>
        /\ Has(req[i].arguments, "format")
        /\ req[i].arguments["format"] = PyStr("jpeg")
        /\ ~Has(req[i].arguments, "display")
        /\ Positions(cmd[i], FlagTokens("simctl_screenshot", "format")) # {}

\* the fixed tokens that name the external tool
ToolPath == <<"xcrun", "simctl">>

GrantOrRevokeWithoutBundle(i) ==
    /\ req[i].name = "simctl_privacy_control"
    /\ Has(req[i].arguments, "action")
    /\ req[i].arguments["action"].v \in {"grant", "revoke"}
    /\ ~Has(req[i].arguments, "bundle_id")

\* C14: a simctl_privacy_control invocation with action grant or revoke and
\* no bundle_id is answered with an error response and launches no child
\* process.
C14_BundleRequiredForGrantRevoke ==
    \A i \in Inv :
        (pc[i] # "idle" /\ GrantOrRevokeWithoutBundle(i)) =>
            /\ pc[i] = "done"
            /\ launches[i] = 0
            /\ cmd[i] = <<>>
            /\ IsErrorResponse(Response(i))

\* the tokens the launch options of invocation i stand for
LaunchFlags(args) ==
    When(Has(args, "wait_for_debugger") /\ args["wait_for_debugger"].v,
         <<"--wait-for-debugger">>)
    \o When(Has(args, "console_mode") /\ args["console_mode"].v = "console",
            <<"--console">>)
    \o When(Has(args, "console_mode") /\ args["console_mode"].v = "console-pty",
            <<"--console-pty">>)

\* C15: the command line of simctl_launch_app is exactly launch, then
\* --wait-for-debugger iff wait_for_debugger is true, then --console or
\* --console-pty for those console modes (nothing for "none" or omitted),
\* then device, bundle_id and the app arguments in their given order; it
\* never holds a textual true/false token and holds at most one console flag.
C15_LaunchCommandLine ==
    \A i \in Inv :
        (cmd[i] # <<>> /\ req[i].name = "simctl_launch_app") =>
            LET args == req[i].arguments
            IN  /\ (Has(args, "console_mode") =>
                       args["console_mode"].v \in Schema(req[i].name).enum["console_mode"])
                   => cmd[i] = ToolPath \o <<"launch">> \o LaunchFlags(args)
                               \o <<args["device"].v, args["bundle_id"].v>>
                               \o (IF Has(args, "args") THEN args["args"].v ELSE <<>>)
                /\ Positions(cmd[i], {"true", "false", "True", "False"}) = {}
                /\ Cardinality(Positions(cmd[i], {"--console", "--console-pty"})) <= 1

C15_Witness ==
    \E i \in Inv :
        /\ req[i].name = "simctl_launch_app"
        /\ launches[i] = 1
        /\ cmd[i] = <<"xcrun", "simctl", "launch", "--wait-for-debugger",
                      "--console-pty", "booted", "com.a", "-x", "-y">>

\* a set-location invocation that supplies both coordinates as numbers
SetWithBoth(i) ==
    /\ req[i].name = "simctl_set_location"
    /\ Has(req[i].arguments, "device")
    /\ Has(req[i].arguments, "action")
    /\ req[i].arguments["action"] = PyStr("set")
    /\ Has(req[i].arguments, "latitude")
    /\ Has(req[i].arguments, "longitude")

\* C16: simctl_set_location with action "set" and both coordinates supplied,
\* whatever their values (0 included), passes validation and runs
\* location, device, "set", "<latitude>,<longitude>".
C16_SuppliedCoordinatesAccepted ==
    \A i \in Inv :
        (pc[i] # "idle" /\ SetWithBoth(i)) =>
            cmd[i] = ToolPath
                     \o <<"location", req[i].arguments["device"].v, "set",
                          ToString(req[i].arguments["latitude"].v) \o ","
                          \o ToString(req[i].arguments["longitude"].v)>>

\* the flag/value pair of parameter k when k is among `keys`
Pair(args, keys, k, flag) == IF k \in keys THEN <<flag, str(args[k])>> ELSE <<>>

\* the pairs of the parameters in `keys`, in the order of the command line
StatusBarPairs(args, keys) ==
    Pair(args, keys, "time", "--time")
    \o Pair(args, keys, "data_network", "--dataNetwork")
    \o Pair(args, keys, "wifi_bars", "--wifiBars")
    \o Pair(args, keys, "cellular_bars", "--cellularBars")
    \o Pair(args, keys, "battery_level", "--batteryLevel")
    \o Pair(args, keys, "battery_state", "--batteryState")

\* the command line of a status-bar invocation whose parameters `keys` count
\* as supplied
StatusBarCommandLine(args, keys) ==
    ToolPath \o <<"status_bar", args["device"].v, args["action"].v>>
    \o (IF args["action"].v = "override" THEN StatusBarPairs(args, keys) ELSE <<>>)

\* a launched status-bar invocation with one of the declared actions
StatusBarRuns(i) ==
    /\ req[i].name = "simctl_status_bar_override"
    /\ cmd[i] # <<>>
    /\ req[i].arguments["action"].v \in Schema(req[i].name).enum["action"]

\* C17 as stated: under "override" every supplied parameter contributes its
\* pair.
C17_Original ==
    \A i \in Inv :
        StatusBarRuns(i) =>
            cmd[i] = StatusBarCommandLine(req[i].arguments, DOMAIN req[i].arguments)

\* C17: with action "list" or "clear" the command line is exactly
\* status_bar, device, action whatever else is supplied; with "override"
\* each parameter supplied with a value other than the empty string
\* contributes its flag/value pair once, in the order --time, --dataNetwork,
\* --wifiBars, --cellularBars, --batteryLevel, --batteryState; an integer
\* supplied as 0 contributes, an omitted parameter or an empty string does
\* not.
C17_StatusBarCommandLine ==
    \A i \in Inv :
        StatusBarRuns(i) =>
            cmd[i] = StatusBarCommandLine(
                         req[i].arguments,
                         {k \in DOMAIN req[i].arguments :
                              req[i].arguments[k] # PyStr("")})

C17_Witness ==
    \E i \in Inv :
        /\ StatusBarRuns(i)
        /\ launches[i] = 1
        /\ Has(req[i].arguments, "time") /\ req[i].arguments["time"] = PyStr("")
        /\ ~Has(req[i].arguments, "cellular_bars")
        /\ cmd[i] = <<"xcrun", "simctl", "status_bar", "booted", "override",
                      "--wifiBars", "0", "--batteryLevel", "0",
                      "--batteryState", "charging">>

====
